---- MODULE Spec2Model ----
(***************************************************************************)
(* Model of src/common/errors.rs: the MonoError value type, its            *)
(* constructors, its conversions from anyhow::Error and clap::Error, its   *)
(* Display implementation and its print method.                            *)
(*                                                                         *)
(* Text is a sequence of characters; a character is a one-token string.    *)
(* "LF" is the newline character, "U6D4B" a multi-byte (non-ASCII) one.    *)
(* An anyhow::Error is its chain of messages, outermost first.             *)
(***************************************************************************)
EXTENDS Integers, Sequences, FiniteSets

VARIABLES value, origin, stderr, calls, rendered, panicked

vars == <<value, origin, stderr, calls, rendered, panicked>>

----------------------------------------------------------------------------
(* Bounds of the model *)

\* longest generated message text
MaxLen == 2
\* longest cause chain of a generated anyhow::Error
MaxChain == 2
\* generated codes range over -CodeSpan..CodeSpan, plus the sampled ones
CodeSpan == 1
\* print calls on one value
MaxPrints == 2

----------------------------------------------------------------------------
(* Text *)

LF == "LF"

Alphabet == {"a", "U6D4B", LF}

BoundedText == UNION {[1..n -> Alphabet] : n \in 0..MaxLen}

DiskFull == <<"d", "i", "s", "k", " ", "f", "u", "l", "l">>

Frobnicate == <<"f", "r", "o", "b", "n", "i", "c", "a", "t", "e">>

Messages == BoundedText \cup {DiskFull, Frobnicate}

UnknownSubcommandPrefix ==
    <<"U", "n", "k", "n", "o", "w", "n", " ",
      "s", "u", "b", "c", "o", "m", "m", "a", "n", "d", ":", " ">>

ErrorMessagePrefix ==
    <<"E", "r", "r", "o", "r", " ",
      "M", "e", "s", "s", "a", "g", "e", ":", " ">>

Contains(s, sub) ==
    \E i \in 0..(Len(s) - Len(sub)) : SubSeq(s, i + 1, i + Len(sub)) = sub

RECURSIVE Repeat(_, _)
Repeat(s, n) == IF n = 0 THEN <<>> ELSE s \o Repeat(s, n - 1)

\* number of newline characters in a text
RECURSIVE CountLF(_)
CountLF(s) ==
    IF s = <<>> THEN 0
    ELSE (IF Head(s) = LF THEN 1 ELSE 0) + CountLF(Tail(s))

----------------------------------------------------------------------------
(* Formatting of the code: "{}" of an i32 *)

DigitChar == <<"0", "1", "2", "3", "4", "5", "6", "7", "8", "9">>

RECURSIVE Digits(_)
Digits(n) ==
    IF n < 10 THEN <<DigitChar[n + 1]>>
    ELSE Digits(n \div 10) \o <<DigitChar[(n % 10) + 1]>>

fmt_i32(n) == IF n < 0 THEN <<"-">> \o Digits(0 - n) ELSE Digits(n)

----------------------------------------------------------------------------
(* Option, anyhow::Error, clap::Error *)

None == [some |-> FALSE]

Some(x) == [some |-> TRUE, val |-> x]

\* anyhow!(...) builds an error with a single message and no cause
anyhow(msg) == <<msg>>

\* Error::context wraps the error in an outer message
context(err, msg) == <<msg>> \o err

\* the messages of the underlying causes of the generated chains
Causes == {<<>>, DiskFull, <<"U6D4B", LF>>}

\* the chains of n underlying causes, each wrapping the next
RECURSIVE CauseChains(_)
CauseChains(n) ==
    IF n = 1 THEN {anyhow(m) : m \in Causes}
    ELSE {context(e, m) : e \in CauseChains(n - 1), m \in Causes}

\* an error with any message, alone or as context of a chain of causes
AnyhowErrors ==
    {anyhow(m) : m \in Messages}
        \cup UNION {{context(e, m) : e \in CauseChains(n), m \in Messages} :
                      n \in 1..(MaxChain - 1)}

\* "{:#}" of an anyhow::Error: the whole chain, joined by ": "
RECURSIVE anyhow_fmt_alternate(_)
anyhow_fmt_alternate(err) ==
    IF Len(err) = 1 THEN Head(err)
    ELSE Head(err) \o <<":", " ">> \o anyhow_fmt_alternate(Tail(err))

\* "{}" of an anyhow::Error: the outermost message only
anyhow_fmt(err) == Head(err)

ErrorKinds ==
    {"DisplayHelp", "DisplayVersion",
     "DisplayHelpOnMissingArgumentOrSubcommand",
     "MissingRequiredArgument", "InvalidSubcommand", "UnknownArgument"}

\* a clap::Error: its kind, its rendered text and its source() chain
ClapErrors ==
    [kind : ErrorKinds, message : Messages,
     source : {<<>>} \cup {anyhow(m) : m \in Causes}]

\* clap::Error::use_stderr: help and version output go to stdout
use_stderr(err) == err.kind \notin {"DisplayHelp", "DisplayVersion"}

\* clap::Error into anyhow::Error: the rendered text, then its sources
clap_into_anyhow(err) == <<err.message>> \o err.source

i32_from_bool_inverted(b) == IF b THEN 0 ELSE 1

i32_from_bool(b) == IF b THEN 1 ELSE 0

Codes == ((0 - CodeSpan)..CodeSpan) \cup {42, 256, -300}

----------------------------------------------------------------------------
(* MonoError *)

MonoError == [error : {None} \cup {Some(e) : e \in AnyhowErrors}, code : Int]

new_no_cause(error, code) == [error |-> None, code |-> code]

new_clamped(error, code) == [error |-> Some(error), code |-> code % 256]

new(error, code) == [error |-> Some(error), code |-> code]

into_option(error) == Some(error)

_unknown_subcommand_code2(cmd) ==
    [error |-> into_option(anyhow(UnknownSubcommandPrefix \o cmd)),
     code |-> 2]

_unknown_subcommand(cmd) ==
    [error |-> into_option(anyhow(UnknownSubcommandPrefix \o cmd)),
     code |-> 1]

_with_message_code1(msg) ==
    [error |-> into_option(anyhow(ErrorMessagePrefix \o msg)),
     code |-> 1]

_with_message(msg) ==
    [error |-> into_option(anyhow(ErrorMessagePrefix \o msg)),
     code |-> 0]

from_anyhow_code1(err) == new(err, 1)

from_anyhow(err) == new(err, 101)

from_clap(err) == new(clap_into_anyhow(err), i32_from_bool(use_stderr(err)))

\* the outcome of a call that unwinds instead of returning
Panic == [ok |-> FALSE]

\* the outcome of a call that returns the text s
Ok(s) == [ok |-> TRUE, val |-> s]

fmt_with_code(self) ==
    IF self.error.some
    THEN Ok(fmt_i32(self.code) \o <<":">> \o anyhow_fmt(self.error.val))
    ELSE Panic

\* Display for MonoError: Option::unwrap panics on None
fmt(self) ==
    IF self.error.some THEN Ok(anyhow_fmt(self.error.val)) ELSE Panic

print_text_no_colon(self) ==
    IF self.error.some
    THEN fmt_i32(self.code) \o anyhow_fmt(self.error.val) \o <<LF>>
    ELSE <<>>

print_text_chain(self) ==
    IF self.error.some
    THEN fmt_i32(self.code) \o <<":">>
            \o anyhow_fmt_alternate(self.error.val) \o <<LF>>
    ELSE <<>>

\* the text print hands to eprintln!, nothing when the cause is absent
print_text(self) ==
    IF self.error.some
    THEN fmt_i32(self.code) \o <<":">> \o anyhow_fmt(self.error.val) \o <<LF>>
    ELSE <<>>

----------------------------------------------------------------------------
(* The caller: builds one value, renders and prints it, discards it *)

NoValue == [held |-> FALSE]

NoOrigin == [op |-> "none"]

Init ==
    /\ value = NoValue
    /\ origin = NoOrigin
    /\ stderr = <<>>
    /\ calls = 0
    /\ rendered = None
    /\ panicked = "no"

New ==
    /\ value = NoValue
    /\ \E e \in AnyhowErrors, c \in Codes :
           /\ value' = new(e, c)
           /\ origin' = [op |-> "new", error |-> e, code |-> c]
    /\ UNCHANGED <<stderr, calls, rendered, panicked>>

UnknownSubcommand ==
    /\ value = NoValue
    /\ \E cmd \in Messages :
           /\ value' = _unknown_subcommand(cmd)
           /\ origin' = [op |-> "_unknown_subcommand", cmd |-> cmd]
    /\ UNCHANGED <<stderr, calls, rendered, panicked>>

WithMessage ==
    /\ value = NoValue
    /\ \E msg \in Messages :
           /\ value' = _with_message(msg)
           /\ origin' = [op |-> "_with_message", msg |-> msg]
    /\ UNCHANGED <<stderr, calls, rendered, panicked>>

FromAnyhow ==
    /\ value = NoValue
    /\ \E e \in AnyhowErrors :
           /\ value' = from_anyhow(e)
           /\ origin' = [op |-> "from_anyhow", error |-> e]
    /\ UNCHANGED <<stderr, calls, rendered, panicked>>

FromClap ==
    /\ value = NoValue
    /\ \E e \in ClapErrors :
           /\ value' = from_clap(e)
           /\ origin' = [op |-> "from_clap", error |-> e]
    /\ UNCHANGED <<stderr, calls, rendered, panicked>>

\* the fields are pub: a caller can write MonoError { error: None, code }
Literal ==
    /\ value = NoValue
    /\ \E c \in Codes :
           /\ value' = [error |-> None, code |-> c]
           /\ origin' = [op |-> "literal", code |-> c]
    /\ UNCHANGED <<stderr, calls, rendered, panicked>>

\* self.print(): eprintln! panics when the write to stderr fails
MonoPrint ==
    /\ value # NoValue
    /\ panicked = "no"
    /\ calls < MaxPrints
    /\ calls' = calls + 1
    /\ \/ /\ stderr' = stderr \o print_text(value)
          /\ UNCHANGED panicked
       \/ /\ value.error.some
          /\ panicked' = "print"
          /\ UNCHANGED stderr
    /\ UNCHANGED <<value, origin, rendered>>

\* self.to_string()
ToString ==
    /\ value # NoValue
    /\ panicked = "no"
    /\ rendered = None
    /\ IF fmt(value) = Panic
       THEN panicked' = "fmt" /\ UNCHANGED rendered
       ELSE rendered' = Some(fmt(value).val) /\ UNCHANGED panicked
    /\ UNCHANGED <<value, origin, stderr, calls>>

\* the value is dropped (or the unwinding ends the run)
Discard ==
    /\ value # NoValue
    /\ value' = NoValue
    /\ origin' = NoOrigin
    /\ stderr' = <<>>
    /\ calls' = 0
    /\ rendered' = None
    /\ panicked' = "no"

Next ==
    \/ New
    \/ UnknownSubcommand
    \/ WithMessage
    \/ FromAnyhow
    \/ FromClap
    \/ Literal
    \/ MonoPrint
    \/ ToString
    \/ Discard

Spec == Init /\ [][Next]_vars

TypeOK ==
    /\ calls \in 0..MaxPrints
    /\ panicked \in {"no", "print", "fmt"}
    /\ value # NoValue => value.code \in Int

----------------------------------------------------------------------------
(* Properties *)

Held == value # NoValue

HasCause == Held /\ value.error.some

Constructors ==
    {"new", "_unknown_subcommand", "_with_message", "from_anyhow", "from_clap"}

\* C1: every value produced by new, _unknown_subcommand, _with_message,
\* From<anyhow::Error> or From<clap::Error> has its cause present.
C1_CausePresent ==
    origin.op \in Constructors => value.error.some

C1_Witness ==
    /\ origin.op = "from_clap"
    /\ value.error = Some(clap_into_anyhow(origin.error))

\* C2: the conversion from a clap::Error yields code 1 exactly when
\* use_stderr is true, code 0 exactly when it is false, and no other code.
C2_ClapCode ==
    origin.op = "from_clap" =>
        /\ value.code \in {0, 1}
        /\ value.code = 1 <=> use_stderr(origin.error)
        /\ value.code = 0 <=> ~use_stderr(origin.error)

C2_Witness ==
    /\ origin.op = "from_clap"
    /\ origin.error.kind = "DisplayHelp"
    /\ value.code = 0

\* C3: the conversion from an anyhow::Error yields code 101 whatever the
\* message or chain, the cause is that same error, and the rendered text
\* contains the error's message.
C3_FromAnyhow ==
    origin.op = "from_anyhow" =>
        /\ value.code = 101
        /\ value.error = Some(origin.error)
        /\ rendered.some => Contains(rendered.val, Head(origin.error))

C3_Witness ==
    /\ origin.op = "from_anyhow"
    /\ Len(origin.error) = 2
    /\ rendered.some
    /\ value.code = 101

\* C4: print never panics: with the cause present it completes normally,
\* with the cause absent it writes nothing and raises nothing.
C4_PrintNeverPanics ==
    /\ panicked # "print"
    /\ (Held /\ ~value.error.some) => stderr = <<>>

\* the text the claims expect of print: code, colon, Display text, newline
ExpectedLine(v) == fmt_i32(v.code) \o <<":">> \o fmt(v).val \o <<LF>>

DiskFullLine ==
    <<"0", ":", "E", "r", "r", "o", "r", " ",
      "M", "e", "s", "s", "a", "g", "e", ":", " ",
      "d", "i", "s", "k", " ", "f", "u", "l", "l", LF>>

\* C5 as stated: with the cause present, a print call whose write succeeds
\* writes exactly one line: the code, a colon, the Display text, a newline.
C5_ExactlyOneLine ==
    (HasCause /\ panicked = "no" /\ calls = 1) =>
        /\ stderr = ExpectedLine(value)
        /\ CountLF(stderr) = 1

\* C5 amended: with the cause present, every print call whose write
\* succeeds appends the code, a colon, the Display text and a newline;
\* that is exactly one line when the Display text holds no newline, as for
\* _with_message("disk full"), which prints "0:Error Message: disk full".
C5_PrintText ==
    (HasCause /\ panicked # "print") =>
        /\ stderr = Repeat(ExpectedLine(value), calls)
        /\ CountLF(stderr) = calls * (1 + CountLF(fmt(value).val))
        /\ (origin.op = "_with_message" /\ origin.msg = DiskFull) =>
               stderr = Repeat(DiskFullLine, calls)

C5_Witness ==
    /\ origin.op = "_with_message"
    /\ origin.msg = DiskFull
    /\ calls = 1
    /\ stderr = DiskFullLine

\* C6: Display renders exactly the cause's representation, the same for
\* every code; with the cause absent it panics and returns no string.
C6_Display ==
    Held =>
        /\ value.error.some =>
               /\ fmt(value) = Ok(anyhow_fmt(value.error.val))
               /\ \A c \in Codes : fmt([value EXCEPT !.code = c]) = fmt(value)
               /\ rendered.some => rendered.val = anyhow_fmt(value.error.val)
               /\ panicked # "fmt"
        /\ ~value.error.some =>
               /\ fmt(value) = Panic
               /\ rendered = None

C6_Witness ==
    /\ HasCause
    /\ Len(value.error.val) = 2
    /\ value.code = 256
    /\ rendered = Some(Head(value.error.val))

C6_WitnessAbsent ==
    /\ Held
    /\ ~value.error.some
    /\ panicked = "fmt"

UnknownFrobnicate ==
    <<"U", "n", "k", "n", "o", "w", "n", " ",
      "s", "u", "b", "c", "o", "m", "m", "a", "n", "d", ":", " ",
      "f", "r", "o", "b", "n", "i", "c", "a", "t", "e">>

\* C7: _unknown_subcommand(name) has code 1 and renders as
\* "Unknown subcommand: " followed by name, for every name.
C7_UnknownSubcommand ==
    origin.op = "_unknown_subcommand" =>
        /\ value.code = 1
        /\ fmt(value) = Ok(UnknownSubcommandPrefix \o origin.cmd)
        /\ rendered.some => rendered.val = UnknownSubcommandPrefix \o origin.cmd
        /\ (rendered.some /\ origin.cmd = Frobnicate) =>
               rendered.val = UnknownFrobnicate

C7_Witness ==
    /\ origin.op = "_unknown_subcommand"
    /\ origin.cmd = Frobnicate
    /\ value.code = 1
    /\ rendered = Some(UnknownFrobnicate)

\* C8: _with_message(msg) has code 0 and renders as "Error Message: "
\* followed by msg, for every msg; its code is the code of a help request
\* converted from clap.
C8_WithMessage ==
    origin.op = "_with_message" =>
        /\ value.code = 0
        /\ fmt(value) = Ok(ErrorMessagePrefix \o origin.msg)
        /\ rendered.some => rendered.val = ErrorMessagePrefix \o origin.msg
        /\ value.code =
               from_clap([kind |-> "DisplayHelp", message |-> origin.msg,
                          source |-> <<>>]).code

C8_Witness ==
    /\ origin.op = "_with_message"
    /\ origin.msg = <<"U6D4B", LF>>
    /\ value.code = 0
    /\ rendered = Some(ErrorMessagePrefix \o <<"U6D4B", LF>>)

\* C9: new(cause, code) stores both verbatim, whatever the code (negative
\* or above 255 included), and the rendered string contains the cause's
\* message, which for a wrapped error is the context text.
C9_NewVerbatim ==
    origin.op = "new" =>
        /\ value.code = origin.code
        /\ value.error = Some(origin.error)
        /\ rendered.some => Contains(rendered.val, Head(origin.error))

C9_Witness ==
    /\ origin.op = "new"
    /\ origin.code = 256
    /\ origin.error = context(anyhow(DiskFull), Frobnicate)
    /\ value.code = 256
    /\ rendered = Some(Frobnicate)

C9_WitnessNegative ==
    /\ origin.op = "new"
    /\ value.code = -300

CausedBy == <<" ", "(", "c", "a", "u", "s", "e", "d", " ", "b", "y", ":", " ">>

\* C10 as stated: for a cause that is a chain, the printed line has the
\* form code:message (caused by: ...), the underlying causes following
\* the outermost message.
C10_ChainPrinted ==
    (HasCause /\ panicked = "no" /\ calls = 1 /\ Len(value.error.val) >= 2) =>
        /\ Contains(stderr, fmt_i32(value.code) \o <<":">>
                               \o Head(value.error.val) \o CausedBy)
        /\ \A i \in 2..Len(value.error.val) :
               Contains(stderr, CausedBy \o value.error.val[i])

\* C10 amended: for a cause that is a chain, each printed line is the code,
\* a colon and the outermost message of the chain only; the underlying
\* causes are not part of it.
C10_OutermostOnly ==
    (HasCause /\ panicked # "print" /\ Len(value.error.val) >= 2) =>
        stderr = Repeat(fmt_i32(value.code) \o <<":">>
                            \o Head(value.error.val) \o <<LF>>, calls)

C10_Witness ==
    /\ HasCause
    /\ value.error.val = context(anyhow(DiskFull), Frobnicate)
    /\ value.code = 42
    /\ calls = 1
    /\ panicked = "no"
    /\ ~Contains(stderr, DiskFull)

====
